---- MODULE Spec2Model ----
(***************************************************************************)
(* Model of cmake/GenerateRequirementsTable.py: the requirement-block      *)
(* scanner (File_RequirementParser), the block parser (Requirement) and    *)
(* the collection loop of CreateRequirementsDataFrame.                     *)
(*                                                                         *)
(* Text is modelled as a sequence of tokens.  A token is one character     *)
(* (" ", "\n", "-", "a", "1", "2") or an indivisible word of the input     *)
(* ("!>", "@beginreq", "@endreq", "ticket" and their upper-case forms).    *)
(* A line is a non-empty token sequence whose only "\n" can be its last    *)
(* token; the empty sequence is what readline() returns at end of file.    *)
(* The regular expressions of the source are computed on these sequences.  *)
(***************************************************************************)
EXTENDS Integers, Sequences, FiniteSets, TLC

VARIABLES
    pc,               \* position in CreateRequirementsDataFrame / the parser
    skip_no_require,  \* args.skip_no_require
    fileIdx,          \* index of f in the input list (f's path is its index)
    isfile,           \* os.path.isfile(testFile) for the current file
    fobject,          \* the open file object: "open" or "eof"
    fline,            \* the parser's local fline
    reqBlock,         \* the parser's local reqBlock
    reqID,            \* number of values already taken from the counter reqID
    parserReqs,       \* File_RequirementParser.allReqs of the current file
    allReqs,          \* CreateRequirementsDataFrame's local allReqs
    df,               \* the returned data frame (None until built)
    error             \* the RuntimeError that ended the run (None if none)

vars == <<pc, skip_no_require, fileIdx, isfile, fobject, fline, reqBlock,
          reqID, parserReqs, allReqs, df, error>>

----------------------------------------------------------------------------
(* Bounds *)

\* Files in the input list.
MaxFiles == 2
\* Identifiers handed out in one run (blocks opened after that are not fed).
MaxReqs == 2
\* Lines of one block, begin and end marker included.
MaxBlockLen == 3
\* Continuation lines of an input block of the Requirement constructor.
MaxCont == 2
\* Tokens of a ticket value fed to the Requirement constructor.
MaxValueLen == 3

----------------------------------------------------------------------------
(* Python values *)

None == <<>>
Some(v) == <<v>>

\* Python truthiness of an optional string: None and '' are false.
Truthy(opt) == opt # None /\ opt[1] # <<>>

TAG == "!>"
NL == "\n"
EOFLine == <<>>

\* Characters matched by \s.
IsSpace(c) == c \in {" ", "\n", "\t"}

\* Characters matched by [0-9].
IsDigit(c) == c \in {"0", "1", "2", "3", "4", "5", "6", "7", "8", "9"}

\* str.lower() of a token, as re.IGNORECASE compares.
Lower(c) ==
    CASE c = "@BEGINREQ" -> "@beginreq"
      [] c = "@BeginReq" -> "@beginreq"
      [] c = "@ENDREQ" -> "@endreq"
      [] c = "@EndReq" -> "@endreq"
      [] c = "TICKET" -> "ticket"
      [] c = "Ticket" -> "ticket"
      [] c = "A" -> "a"
      [] OTHER -> c

Max(S) == CHOOSE x \in S : \A y \in S : y <= x
Min(S) == CHOOSE x \in S : \A y \in S : x <= y

\* s[n:] of Python (n is a 0-based offset).
Slice(s, n) == SubSeq(s, n + 1, Len(s))

\* Index of the first token at or after i that \s does not match (Len+1 if none):
\* where a greedy \s* starting at i stops.
RECURSIVE SkipSpace(_, _)
SkipSpace(s, i) ==
    IF i > Len(s) \/ ~IsSpace(s[i]) THEN i ELSE SkipSpace(s, i + 1)

\* str.rstrip()
RECURSIVE rstrip(_)
rstrip(s) ==
    IF s = <<>> \/ ~IsSpace(s[Len(s)]) THEN s ELSE rstrip(SubSeq(s, 1, Len(s) - 1))

\* '.' matches anything but a newline: the prefix s[1..n] can be taken by '.*'.
DotStar(s, n) == \A k \in 1..n : s[k] # NL

----------------------------------------------------------------------------
(* The regular expressions of Requirement *)

\* End offset of a match of _re_desc whose "!>" is token i, or -1.
DescEndAt(line, i) ==
    IF line[i] = TAG /\ DotStar(line, i - 1)
    THEN LET j == SkipSpace(line, i + 1)
         IN  IF j <= Len(line) /\ line[j] = "-"
             THEN SkipSpace(line, j + 1) - 1
             ELSE -1
    ELSE -1

\* _re_desc without its hyphen: '.*!>\s*'.
re_desc_match_nohyphen(line) ==
    LET tags == {i \in 1..Len(line) : line[i] = TAG /\ DotStar(line, i - 1)}
    IN  IF tags = {} THEN -1 ELSE SkipSpace(line, Max(tags) + 1) - 1

\* _re_desc.match(line): match.end(), or -1 for None.  '.*' is greedy, so the
\* match uses the last "!>" after which the rest of the pattern matches.
re_desc_match(line) ==
    LET ok == {i \in 1..Len(line) : DescEndAt(line, i) >= 0}
    IN  IF ok = {} THEN -1 ELSE DescEndAt(line, Max(ok))

\* End offset of a match of _re_ticket whose "!>" is token i, or -1.
TicketEndAt(line, i) ==
    IF line[i] = TAG /\ DotStar(line, i - 1)
    THEN LET j == SkipSpace(line, i + 1)
         IN  IF j <= Len(line) /\ line[j] = "-"
             THEN LET k == SkipSpace(line, j + 1)
                  IN  IF k <= Len(line) /\ Lower(line[k]) = "ticket"
                      THEN SkipSpace(line, k + 1) - 1
                      ELSE -1
             ELSE -1
    ELSE -1

\* _re_ticket.match(line): match.end(), or -1 for None.
re_ticket_match(line) ==
    LET ok == {i \in 1..Len(line) : TicketEndAt(line, i) >= 0}
    IN  IF ok = {} THEN -1 ELSE TicketEndAt(line, Max(ok))

\* _re_ticket.split(line)[1] for a line the pattern matches: the text after
\* the match.  The greedy '.*' reaches the last ticket keyword of the line, so
\* the rest holds no second match to split at.
re_ticket_split1(line) == Slice(line, re_ticket_match(line))

\* _re_int.search(tix) in place of match: a digit anywhere in the value.
re_int_search(tix) == \E i \in 1..Len(tix) : IsDigit(tix[i])

\* _re_int.match(tix): the value starts with a digit.
re_int_match(tix) == tix # <<>> /\ IsDigit(tix[1])

\* _re_int.findall(tix): the maximal runs of digits, in order.
RECURSIVE re_int_findall(_)
re_int_findall(tix) ==
    IF tix = <<>> THEN <<>>
    ELSE IF ~IsDigit(tix[1]) THEN re_int_findall(Tail(tix))
    ELSE LET stop == Min({i \in 2..Len(tix) + 1 : i = Len(tix) + 1 \/ ~IsDigit(tix[i])})
         IN  <<SubSeq(tix, 1, stop - 1)>> \o re_int_findall(Slice(tix, stop - 1))

\* The base of the ticket URL, one token.
TicketURL == "https://vminfo.casl.gov/trac/casl_phi_kanban/ticket/"

\* The loop of lines 104-106: one URL and a newline for each number.
RECURSIVE JoinURLs(_)
JoinURLs(runs) ==
    IF runs = <<>> THEN <<>>
    ELSE <<TicketURL>> \o Head(runs) \o <<NL>> \o JoinURLs(Tail(runs))

\* Lines 101-109: the ticket field from the ticket line.
TicketField(line) ==
    LET tix == rstrip(re_ticket_split1(line))
    IN  IF re_int_match(tix) THEN rstrip(JoinURLs(re_int_findall(tix))) ELSE tix

\* line.split('!>')[1]: the text between the first "!>" and the next one.
HasTag(line) == \E i \in 1..Len(line) : line[i] = TAG

split_tag1(line) ==
    LET first == Min({i \in 1..Len(line) : line[i] = TAG})
        next  == Min({i \in first + 1..Len(line) + 1 :
                         i = Len(line) + 1 \/ line[i] = TAG})
    IN  SubSeq(line, first + 1, next - 1)

----------------------------------------------------------------------------
(* Requirement.__init__ on a raw block; block[k] is rawReqBlock[k-1] *)

\* The value of lineNum when the loop of lines 86-95 ends without raising,
\* as an index into block: the first ticket line among rawReqBlock[2:-1], or
\* the line after the last of them.
TicketLineNum(block) ==
    LET body == 3..Len(block) - 1
        tk   == {k \in body : re_ticket_match(block[k]) >= 0}
    IN  IF tk # {} THEN Min(tk) ELSE IF Len(block) >= 3 THEN Len(block) ELSE 3

\* The lines the loop appends to the description.
ContIdx(block) == 3..TicketLineNum(block) - 1

\* Line 75 raises: the second line of the block is no description start.
BadDescription(block) == re_desc_match(block[2]) < 0

\* Line 94 raises: a continuation line holds no "!>".
BadContinuation(block) ==
    \E k \in ContIdx(block) : k <= Len(block) - 1 /\ ~HasTag(block[k])

RequirementRaises(block) == BadDescription(block) \/ BadContinuation(block)

\* The RuntimeError raised, as (message, file, offending line).
RequirementError(testFile, block) ==
    IF BadDescription(block)
    THEN [msg |-> "Requirement not formatted correctly in file: ",
          file |-> testFile, line |-> block[2]]
    ELSE LET k == Min({i \in ContIdx(block) : ~HasTag(block[i])})
         IN  [msg |-> "Error process file: ", file |-> testFile, line |-> block[k]]

\* Lines 81-92: the description.
RECURSIVE AppendConts(_, _, _)
AppendConts(descr, block, k) ==
    IF k >= TicketLineNum(block) \/ k > Len(block) - 1 THEN descr
    ELSE AppendConts(descr \o rstrip(split_tag1(block[k])), block, k + 1)

FirstText(line) == Slice(line, re_desc_match(line))

Description(block) == AppendConts(FirstText(block[2]), block, 3)

\* Lines 98-109: the ticket field, None when line lineNum is no ticket line.
Ticket(block) ==
    LET n == TicketLineNum(block)
    IN  IF n <= Len(block) /\ re_ticket_match(block[n]) >= 0
        THEN Some(TicketField(block[n]))
        ELSE None

\* Requirement(ID, testFile, rawReqBlock) for a non-empty block that does not raise.
Requirement(ID, testFile, block) ==
    [ID |-> Some(ID), descr |-> Some(Description(block)),
     tix |-> Ticket(block), tfile |-> testFile]

\* Requirement(None, testFile, None)
Placeholder(testFile) ==
    [ID |-> None, descr |-> None, tix |-> None, tfile |-> testFile]

\* Requirement.to_dict
to_dict(r) ==
    [Requirement_ID |-> r.ID, Requirement_Description |-> r.descr,
     Additional_Information |-> r.tix, Test_File |-> r.tfile]

----------------------------------------------------------------------------
(* The regular expressions of File_RequirementParser *)

\* The pattern  !>\s*<token>\s*  in place of  !> <token>\n.
MarkerSearchLoose(line, token) ==
    \E i \in 1..Len(line) :
        /\ line[i] = TAG
        /\ LET k == SkipSpace(line, i + 1)
           IN  k <= Len(line) /\ Lower(line[k]) = token

\* pattern.search(line) for the pattern  !> <token>\n  with re.IGNORECASE:
\* the four tokens stand somewhere in the line, one after the other.
MarkerSearch(line, token) ==
    \E i \in 1..Len(line) - 3 :
        /\ line[i] = TAG
        /\ line[i + 1] = " "
        /\ Lower(line[i + 2]) = token
        /\ line[i + 3] = NL

\* _re_begin.search(fline)
re_begin_search(line) == MarkerSearch(line, "@beginreq")

\* _re_end.search(fline)
re_end_search(line) == MarkerSearch(line, "@endreq")

----------------------------------------------------------------------------
(* Input lines *)

BeginLine == <<TAG, " ", "@beginreq", NL>>
EndLine == <<"a", TAG, " ", "@EndReq", NL>>

\* The lines a scanned file is made of: the two markers (the end marker after
\* other text and in mixed case), a begin token after two spaces, an end
\* token without a newline (a file's last line), a description and a
\* description of whitespace only.
Lines ==
    { BeginLine,
      <<TAG, " ", " ", "@beginreq", NL>>,
      EndLine,
      <<TAG, " ", "@endreq">>,
      <<TAG, " ", "-", " ", "a", NL>>,
      <<TAG, " ", "-", " ", NL>> }

\* readline() can return l: a line while the file has more, '' at its end.
Readable(l) == l = EOFLine \/ (fobject = "open" /\ l \in Lines)

\* The file object after readline() returned l: a line without a newline
\* is the last one.
AfterRead(l) == IF l = EOFLine \/ l[Len(l)] # NL THEN "eof" ELSE "open"

\* A line read for the outer loop, n identifiers being taken: no further
\* block is opened once MaxReqs identifiers are out.
FeedOuter(l, n) == Readable(l) /\ (re_begin_search(l) => n < MaxReqs)

\* A line read inside a block: the block closes or the file ends at
\* MaxBlockLen lines.
FeedInner(l) ==
    /\ Readable(l)
    /\ (Len(reqBlock) + 1 >= MaxBlockLen => (l = EOFLine \/ re_end_search(l)))

----------------------------------------------------------------------------
(* The run *)

Init ==
    /\ pc = "loop"
    /\ skip_no_require \in BOOLEAN
    /\ fileIdx = 0
    /\ isfile = FALSE
    /\ fobject = "none"
    /\ fline = EOFLine
    /\ reqBlock = <<>>
    /\ reqID = 0
    /\ parserReqs = <<>>
    /\ allReqs = <<>>
    /\ df = None
    /\ error = None

\* next(reqID) without the +1.
NewIDZeroBased(count) == count

\* next(reqID)+1: the identifier of the next block.
NewID(count) == count + 1

\* Lines 142-146: the next file of the input list is no regular file.
OpenMissing ==
    /\ pc = "loop"
    /\ fileIdx < MaxFiles
    /\ fileIdx' = fileIdx + 1
    /\ isfile' = FALSE
    /\ parserReqs' = <<>>
    /\ reqBlock' = <<>>
    /\ fline' = EOFLine
    /\ fobject' = "none"
    /\ pc' = "collect"
    /\ UNCHANGED <<skip_no_require, reqID, allReqs, df, error>>

\* Lines 142-152: open the next file and read its first line.
OpenFile ==
    /\ pc = "loop"
    /\ fileIdx < MaxFiles
    /\ fileIdx' = fileIdx + 1
    /\ isfile' = TRUE
    /\ parserReqs' = <<>>
    /\ reqBlock' = <<>>
    /\ \E l \in Lines \cup {EOFLine} :
          /\ l = EOFLine \/ ~re_begin_search(l) \/ reqID < MaxReqs
          /\ fline' = l
          /\ fobject' = AfterRead(l)
    /\ pc' = "outer"
    /\ UNCHANGED <<skip_no_require, reqID, allReqs, df, error>>

\* Line 153: fline is '', the outer loop ends.
OuterEOF ==
    /\ pc = "outer"
    /\ fline = EOFLine
    /\ pc' = "after"
    /\ UNCHANGED <<skip_no_require, fileIdx, isfile, fobject, fline, reqBlock,
                   reqID, parserReqs, allReqs, df, error>>

\* Lines 154-156: fline is a begin marker, a block opens.
OuterBegin ==
    /\ pc = "outer"
    /\ fline # EOFLine
    /\ re_begin_search(fline)
    /\ reqBlock' = <<fline>>
    /\ pc' = "inner"
    /\ UNCHANGED <<skip_no_require, fileIdx, isfile, fobject, fline, reqID,
                   parserReqs, allReqs, df, error>>

\* Lines 154, 165: fline is no begin marker, read the next line.
OuterSkip ==
    /\ pc = "outer"
    /\ fline # EOFLine
    /\ ~re_begin_search(fline)
    /\ \E l \in Lines \cup {EOFLine} :
          /\ FeedOuter(l, reqID)
          /\ fline' = l
          /\ fobject' = AfterRead(l)
    /\ pc' = "outer"
    /\ UNCHANGED <<skip_no_require, fileIdx, isfile, reqBlock, reqID,
                   parserReqs, allReqs, df, error>>

\* The line read inside a block is consumed without joining the block.
InnerBodyDropsLine ==
    /\ pc = "inner"
    /\ \E l \in Lines :
          /\ FeedInner(l)
          /\ ~re_end_search(l)
          /\ fline' = l
          /\ fobject' = AfterRead(l)
          /\ reqBlock' = reqBlock
    /\ pc' = "inner"
    /\ UNCHANGED <<skip_no_require, fileIdx, isfile, reqID, parserReqs,
                   allReqs, df, error>>

\* Lines 157-160: inside a block, a line that is no end marker joins it.
InnerBody ==
    /\ pc = "inner"
    /\ \E l \in Lines :
          /\ FeedInner(l)
          /\ ~re_end_search(l)
          /\ fline' = l
          /\ fobject' = AfterRead(l)
          /\ reqBlock' = Append(reqBlock, l)
    /\ pc' = "inner"
    /\ UNCHANGED <<skip_no_require, fileIdx, isfile, reqID, parserReqs,
                   allReqs, df, error>>

\* The end of the file closes an open block like an end marker.
InnerEOFCloses ==
    /\ pc = "inner"
    /\ fline' = EOFLine
    /\ fobject' = "eof"
    /\ reqBlock' = Append(reqBlock, EOFLine)
    /\ IF Len(reqBlock) >= 2 /\ ~RequirementRaises(reqBlock')
       THEN /\ reqID' = reqID + 1
            /\ parserReqs' = Append(parserReqs,
                                    Requirement(reqID + 1, fileIdx, reqBlock'))
       ELSE UNCHANGED <<reqID, parserReqs>>
    /\ pc' = "outer"
    /\ UNCHANGED <<skip_no_require, fileIdx, isfile, allReqs, df, error>>

\* Lines 157-160, 165: inside a block the file ends: '' joins the block, both
\* loops end.
InnerEOF ==
    /\ pc = "inner"
    /\ fline' = EOFLine
    /\ fobject' = "eof"
    /\ reqBlock' = Append(reqBlock, EOFLine)
    /\ pc' = "outer"
    /\ UNCHANGED <<skip_no_require, fileIdx, isfile, reqID, parserReqs,
                   allReqs, df, error>>

\* Lines 157-165: the end marker closes the block, which becomes a
\* Requirement with the next identifier; then the next line is read.
InnerEnd ==
    /\ pc = "inner"
    /\ \E l \in Lines :
          /\ FeedInner(l)
          /\ re_end_search(l)
          /\ reqBlock' = Append(reqBlock, l)
    /\ ~RequirementRaises(reqBlock')
    /\ reqID' = reqID + 1
    /\ parserReqs' = Append(parserReqs, Requirement(NewID(reqID), fileIdx, reqBlock'))
    /\ \E l2 \in Lines \cup {EOFLine} :
          /\ FeedOuter(l2, reqID')
          /\ fline' = l2
          /\ fobject' = AfterRead(l2)
    /\ pc' = "outer"
    /\ UNCHANGED <<skip_no_require, fileIdx, isfile, allReqs, df, error>>

\* Lines 157-163, 75-79, 91-95: the closed block is malformed, the
\* constructor raises and nothing catches it.
InnerEndRaise ==
    /\ pc = "inner"
    /\ \E l \in Lines :
          /\ FeedInner(l)
          /\ re_end_search(l)
          /\ fline' = l
          /\ fobject' = AfterRead(l)
          /\ reqBlock' = Append(reqBlock, l)
    /\ RequirementRaises(reqBlock')
    /\ reqID' = reqID + 1
    /\ error' = Some(RequirementError(fileIdx, reqBlock'))
    /\ pc' = "aborted"
    /\ UNCHANGED <<skip_no_require, fileIdx, isfile, parserReqs, allReqs, df>>

\* The empty Requirement is appended whatever the file held.
FinishParseAlways ==
    /\ pc = "after"
    /\ parserReqs' = Append(parserReqs, Placeholder(fileIdx))
    /\ pc' = "collect"
    /\ UNCHANGED <<skip_no_require, fileIdx, isfile, fobject, fline, reqBlock,
                   reqID, allReqs, df, error>>

\* Lines 167-168: a file without requirements gets one empty Requirement.
FinishParse ==
    /\ pc = "after"
    /\ parserReqs' = IF parserReqs = <<>> THEN <<Placeholder(fileIdx)>> ELSE parserReqs
    /\ pc' = "collect"
    /\ UNCHANGED <<skip_no_require, fileIdx, isfile, fobject, fline, reqBlock,
                   reqID, allReqs, df, error>>

\* Lines 302-306: addFile for one Requirement.
AddFile(r) == ~(skip_no_require /\ ~Truthy(r.descr))

\* Lines 301-308 for one file: the kept Requirements, as dictionaries.
RECURSIVE Kept(_)
Kept(reqs) ==
    IF reqs = <<>> THEN <<>>
    ELSE (IF AddFile(Head(reqs)) THEN <<to_dict(Head(reqs))>> ELSE <<>>)
         \o Kept(Tail(reqs))

Collect ==
    /\ pc = "collect"
    /\ allReqs' = allReqs \o Kept(parserReqs)
    /\ pc' = "loop"
    /\ UNCHANGED <<skip_no_require, fileIdx, isfile, fobject, fline, reqBlock,
                   reqID, parserReqs, df, error>>

\* df.sort_values('Requirement ID'): ascending identifiers, the rows without
\* one last, in their order.
RECURSIVE InsertByID(_, _)
InsertByID(row, sorted) ==
    IF sorted = <<>> THEN <<row>>
    ELSE IF row.Requirement_ID[1] < Head(sorted).Requirement_ID[1]
         THEN <<row>> \o sorted
         ELSE <<Head(sorted)>> \o InsertByID(row, Tail(sorted))

RECURSIVE SortRows(_)
SortRows(rows) ==
    IF rows = <<>> THEN <<>> ELSE InsertByID(Head(rows), SortRows(Tail(rows)))

HasID(row) == row.Requirement_ID # None
HasNoID(row) == row.Requirement_ID = None

sort_values(rows) == SortRows(SelectSeq(rows, HasID)) \o SelectSeq(rows, HasNoID)

\* Lines 310-315: the input list is exhausted, the data frame is built.
Finish ==
    /\ pc = "loop"
    /\ df' = Some(sort_values(allReqs))
    /\ pc' = "done"
    /\ UNCHANGED <<skip_no_require, fileIdx, isfile, fobject, fline, reqBlock,
                   reqID, parserReqs, allReqs, error>>

Next ==
    \/ OpenMissing
    \/ OpenFile
    \/ OuterEOF
    \/ OuterBegin
    \/ OuterSkip
    \/ InnerBody
    \/ InnerEOF
    \/ InnerEnd
    \/ InnerEndRaise
    \/ FinishParse
    \/ Collect
    \/ Finish

Spec == Init /\ [][Next]_vars

----------------------------------------------------------------------------
(* The Requirement constructor on its own: one call on one raw block *)

\* The sequences over S of length at most n.
SeqsUpTo(S, n) == UNION {[1..k -> S] : k \in 0..n}

\* Second lines of a block: a description, one after other text and without
\* spaces, one of whitespace only, one without the hyphen, and one whose
\* text starts with the ticket keyword.
FirstLines ==
    { <<TAG, " ", "-", " ", "a", NL>>,
      <<"a", TAG, "-", "a", " ", "a", " ", NL>>,
      <<TAG, " ", "-", " ", NL>>,
      <<TAG, " ", "a", NL>>,
      <<TAG, " ", "-", " ", "TICKET", " ", "1", NL>> }

\* Later lines: text after the tag, a line with a hyphen that is no ticket
\* line, a line with two tags, and a line without a tag.
ContLines ==
    { <<" ", TAG, " ", "a", " ", NL>>,
      <<TAG, " ", "-", " ", "a", NL>>,
      <<TAG, "a", TAG, "1", NL>>,
      <<"a", NL>> }

\* The values of a ticket line.
TicketValues == SeqsUpTo({"1", "2", "a", " "}, MaxValueLen)

TicketLine(value) == <<TAG, " ", "-", " ", "ticket", " ">> \o value \o <<NL>>

\* What follows the continuation lines: nothing, a ticket line, or a ticket
\* line with a further line behind it.
TicketParts ==
    {<<>>}
    \cup {<<TicketLine(v)>> : v \in TicketValues}
    \cup { <<TicketLine(<<"1">>), <<TAG, " ", "a", NL>>>>,
           <<<<"a", TAG, "-", "Ticket", "2", NL>>, TicketLine(<<"1">>)>> }

\* An end marker that the ticket pattern matches too.
TicketEndLine == <<TAG, " ", "-", " ", "ticket", " ", "2", " ", TAG, " ", "@endreq", NL>>

\* The raw blocks handed to the constructor: what the scanner can build.
ReqBlocks ==
    { <<BeginLine, f>> \o c \o t \o <<EndLine>> :
          f \in FirstLines, c \in SeqsUpTo(ContLines, MaxCont), t \in TicketParts }
    \cup { <<BeginLine, f>> \o c \o <<TicketEndLine>> :
          f \in FirstLines, c \in SeqsUpTo(ContLines, MaxCont) }
    \cup { <<BeginLine, EndLine>>, <<BeginLine, TicketEndLine>> }

InitReq ==
    /\ pc = "new"
    /\ reqBlock \in ReqBlocks
    /\ skip_no_require = FALSE
    /\ fileIdx = 1
    /\ isfile = TRUE
    /\ fobject = "open"
    /\ fline = reqBlock[Len(reqBlock)]
    /\ reqID = 1
    /\ parserReqs = <<>>
    /\ allReqs = <<>>
    /\ df = None
    /\ error = None

\* Lines 70-109: Requirement(newID, testFile, reqBlock) returns.
Construct ==
    /\ pc = "new"
    /\ ~RequirementRaises(reqBlock)
    /\ parserReqs' = Append(parserReqs, Requirement(reqID, fileIdx, reqBlock))
    /\ pc' = "built"
    /\ UNCHANGED <<skip_no_require, fileIdx, isfile, fobject, fline, reqBlock,
                   reqID, allReqs, df, error>>

\* Lines 75-79, 91-95: the constructor raises.
ConstructRaise ==
    /\ pc = "new"
    /\ RequirementRaises(reqBlock)
    /\ error' = Some(RequirementError(fileIdx, reqBlock))
    /\ pc' = "aborted"
    /\ UNCHANGED <<skip_no_require, fileIdx, isfile, fobject, fline, reqBlock,
                   reqID, parserReqs, allReqs, df>>

NextReq == Construct \/ ConstructRaise

SpecReq == InitReq /\ [][NextReq]_vars

----------------------------------------------------------------------------
(* Vocabulary of the properties, written from their wording *)

Last(q) == q[Len(q)]

\* The identifiers of the Requirements of a list that carry one, in order.
RECURSIVE ReqIDs(_)
ReqIDs(reqs) ==
    IF reqs = <<>> THEN <<>>
    ELSE (IF Head(reqs).ID = None THEN <<>> ELSE <<Head(reqs).ID[1]>>)
         \o ReqIDs(Tail(reqs))

\* The identifiers of the rows of a table that carry one, in order.
RECURSIVE RowIDs(_)
RowIDs(rows) ==
    IF rows = <<>> THEN <<>>
    ELSE (IF Head(rows).Requirement_ID = None THEN <<>>
          ELSE <<Head(rows).Requirement_ID[1]>>)
         \o RowIDs(Tail(rows))

\* The rows of the table that come from file f.
RECURSIVE RowsOf(_, _)
RowsOf(rows, f) ==
    IF rows = <<>> THEN <<>>
    ELSE (IF Head(rows).Test_File = f THEN <<Head(rows)>> ELSE <<>>)
         \o RowsOf(Tail(rows), f)

\* The parser of the current file is running or has not been collected yet.
Uncollected == pc \in {"outer", "inner", "after", "collect", "aborted"}

\* The identifiers handed to blocks so far, in discovery order.  With the
\* flag unset every Requirement reaches the table.
Discovered == RowIDs(allReqs) \o (IF Uncollected THEN ReqIDs(parserReqs) ELSE <<>>)

\* The block raised: its identifier was taken and no Requirement was built.
Raised == IF pc = "aborted" THEN 1 ELSE 0

\* A line holds the tag, then only whitespace, then a hyphen.
DescriptionStart(line) ==
    \E i \in 1..Len(line) : \E j \in i + 1..Len(line) :
        /\ line[i] = TAG
        /\ line[j] = "-"
        /\ \A k \in i + 1..j - 1 : IsSpace(line[k])

\* Positions of a ticket keyword that follows tag and hyphen.
TicketKeywords(line) ==
    { k \in 1..Len(line) :
        /\ Lower(line[k]) = "ticket"
        /\ \E i \in 1..k - 1 : \E j \in i + 1..k - 1 :
              /\ line[i] = TAG
              /\ line[j] = "-"
              /\ \A m \in (i + 1..j - 1) \cup (j + 1..k - 1) : IsSpace(line[m]) }

\* Left and right trimming by positions.
Trimmed(s) ==
    LET solid == {i \in 1..Len(s) : ~IsSpace(s[i])}
    IN  IF solid = {} THEN <<>> ELSE SubSeq(s, Min(solid), Max(solid))

RightTrimmed(s) ==
    LET solid == {i \in 1..Len(s) : ~IsSpace(s[i])}
    IN  IF solid = {} THEN <<>> ELSE SubSeq(s, 1, Max(solid))

LeftTrimmed(s) ==
    LET solid == {i \in 1..Len(s) : ~IsSpace(s[i])}
    IN  IF solid = {} THEN <<>> ELSE SubSeq(s, Min(solid), Len(s))

\* The lines of a block after its first description line that are ticket lines.
TicketLines(block) == {k \in 3..Len(block) : TicketKeywords(block[k]) # {}}

\* The value of a ticket line: what follows the keyword, trimmed.
TicketValue(line) == Trimmed(SubSeq(line, Max(TicketKeywords(line)) + 1, Len(line)))

\* The runs of digits of a value, by the position each starts at.
RunStarts(v) == {i \in 1..Len(v) : IsDigit(v[i]) /\ (i = 1 \/ ~IsDigit(v[i - 1]))}

RunFrom(v, i) ==
    SubSeq(v, i, Max({j \in i..Len(v) : \A m \in i..j : IsDigit(v[m])}))

\* One canonical URL per run, in order of appearance, joined by newlines.
RECURSIVE URLsOfRuns(_, _)
URLsOfRuns(v, starts) ==
    IF starts = {} THEN <<>>
    ELSE LET i == Min(starts)
         IN  <<TicketURL>> \o RunFrom(v, i)
             \o (IF starts = {i} THEN <<>> ELSE <<NL>>)
             \o URLsOfRuns(v, starts \ {i})

\* The Requirement the constructor built from reqBlock.
Built == parserReqs[Len(parserReqs)]

\* A block whose lines all have the documented form.
WellFormed(block) ==
    /\ Len(block) >= 3
    /\ DescriptionStart(block[2])
    /\ \A k \in 3..Len(block) - 1 : HasTag(block[k])

\* The text of the first description line: what follows marker and hyphen.
FirstLineText(line) ==
    LET hy == {j \in 1..Len(line) :
                 /\ line[j] = "-"
                 /\ \E i \in 1..j - 1 :
                       line[i] = TAG /\ \A k \in i + 1..j - 1 : IsSpace(line[k])}
    IN  LeftTrimmed(SubSeq(line, Max(hy) + 1, Len(line)))

\* The description the specification gives a well-formed block: every piece
\* right-trimmed, up to the ticket line or the end marker.
RECURSIVE TrimmedPieces(_, _, _)
TrimmedPieces(block, k, stop) ==
    IF k >= stop THEN <<>>
    ELSE RightTrimmed(split_tag1(block[k])) \o TrimmedPieces(block, k + 1, stop)

TrimmedDescription(block) ==
    LET tl   == {k \in 3..Len(block) - 1 : TicketKeywords(block[k]) # {}}
        stop == IF tl = {} THEN Len(block) ELSE Min(tl)
    IN  RightTrimmed(FirstLineText(block[2])) \o TrimmedPieces(block, 3, stop)

\* reqBlock is a block that an end marker closed.
Terminated == Len(reqBlock) >= 2 /\ Last(reqBlock) # EOFLine /\ pc # "inner"

\* reqBlock is a block the end of the file cut off.
Unterminated == Len(reqBlock) >= 2 /\ Last(reqBlock) = EOFLine

\* The tokens  !>, one space, the marker in any case, newline  end the line.
StrictMarker(line, token) ==
    /\ Len(line) >= 4
    /\ SubSeq(line, Len(line) - 3, Len(line) - 1) \in
          {<<TAG, " ", t>> : t \in {u \in {"@beginreq", "@BEGINREQ", "@BeginReq",
                                           "@endreq", "@ENDREQ", "@EndReq"} :
                                      Lower(u) = token}}
    /\ line[Len(line)] = NL

\* The marker as the specification reads it: tag, any whitespace, the token,
\* any whitespace up to the end of the line.
TolerantMarker(line, token) ==
    \E i \in 1..Len(line) : \E k \in i + 1..Len(line) :
        /\ line[i] = TAG
        /\ Lower(line[k]) = token
        /\ \A m \in (i + 1..k - 1) \cup (k + 1..Len(line)) : IsSpace(line[m])

----------------------------------------------------------------------------
(* Properties *)

\* C1: the identifiers given to extracted blocks are 1, 2, 3, ... in
\* discovery order, without repeats or gaps; every identifier taken from the
\* counter belongs to a built Requirement (or to the block that raised), so
\* placeholders and unterminated blocks take none.
C1_IdentifiersSequential ==
    /\ \A i \in 1..Len(ReqIDs(parserReqs)) :
          ReqIDs(parserReqs)[i] = reqID - Raised - Len(ReqIDs(parserReqs)) + i
    /\ \A i \in 1..Len(RowIDs(allReqs)) : \A j \in 1..Len(RowIDs(allReqs)) :
          i < j => RowIDs(allReqs)[i] < RowIDs(allReqs)[j]
    /\ ~skip_no_require =>
          /\ Len(Discovered) = reqID - Raised
          /\ \A i \in 1..Len(Discovered) : Discovered[i] = i

\* C1, reached: two files gave one block each, numbered 1 and 2.
C1_Witness ==
    /\ ~skip_no_require
    /\ pc = "loop"
    /\ RowIDs(allReqs) = <<1, 2>>
    /\ allReqs[1].Test_File # allReqs[Len(allReqs)].Test_File

\* C2: an existing file without an extracted block gets exactly one
\* placeholder (path only), which the flag keeps out of the table; a file
\* with an extracted block gets no placeholder.
C2_OnePlaceholder ==
    (pc \in {"collect", "loop"} /\ fileIdx >= 1) =>
        LET rows == IF pc = "loop" THEN RowsOf(allReqs, fileIdx) ELSE <<>>
            empty == [ID |-> None, descr |-> None, tix |-> None, tfile |-> fileIdx]
            emptyRow == [Requirement_ID |-> None, Requirement_Description |-> None,
                         Additional_Information |-> None, Test_File |-> fileIdx]
        IN  /\ ~isfile => parserReqs = <<>> /\ rows = <<>>
            /\ (isfile /\ ReqIDs(parserReqs) = <<>>) =>
                  /\ parserReqs = <<empty>>
                  /\ pc = "loop" =>
                        rows = IF skip_no_require THEN <<>> ELSE <<emptyRow>>
            /\ ReqIDs(parserReqs) # <<>> =>
                  /\ \A i \in 1..Len(parserReqs) : parserReqs[i].ID # None
                  /\ \A i \in 1..Len(rows) : rows[i].Requirement_ID # None

\* C2, reached: the second file held no block and, the flag being set, added no row.
C2_Witness ==
    /\ pc = "loop"
    /\ isfile
    /\ skip_no_require
    /\ fileIdx = 2
    /\ parserReqs = <<Placeholder(2)>>
    /\ RowsOf(allReqs, 2) = <<>>
    /\ RowIDs(allReqs) = <<1>>

\* C3: a terminated block whose second line is no description start (the end
\* marker of an empty block included) aborts the run with an error naming
\* the file; an aborted run builds no table and takes no further step.
C3_MalformedAborts ==
    /\ (Terminated /\ ~DescriptionStart(reqBlock[2])) =>
          /\ pc = "aborted"
          /\ error # None
          /\ error[1].file = fileIdx
    /\ pc = "aborted" => (df = None /\ error # None /\ ~ENABLED Next)

\* C3, reached: an empty block in the second file aborted the run after the first file gave a row.
C3_Witness ==
    /\ pc = "aborted"
    /\ fileIdx = 2
    /\ RowIDs(allReqs) = <<1>>
    /\ reqBlock = <<BeginLine, EndLine>>
    /\ error[1].file = 2

\* C4: the description of a well-formed block is the concatenation of its
\* pieces, every one right-trimmed, the first included.
C4_DescriptionTrimmed ==
    (pc = "built" /\ WellFormed(reqBlock)) =>
        Built.descr = Some(TrimmedDescription(reqBlock))

\* C5 as claimed: a ticket value with k >= 1 digit runs becomes k URLs, a
\* value without digits stays as it is.
C5_AnyDigitRuns ==
    (pc = "built" /\ TicketLines(reqBlock) # {}) =>
        LET v == TicketValue(reqBlock[Min(TicketLines(reqBlock))])
        IN  Built.tix = Some(IF RunStarts(v) # {} THEN URLsOfRuns(v, RunStarts(v)) ELSE v)

\* C5: a ticket value that starts with a digit becomes one URL per digit
\* run, in order, joined by newlines; any other value stays as it is.
C5_LeadingDigitRuns ==
    (pc = "built" /\ TicketLines(reqBlock) # {}) =>
        LET v == TicketValue(reqBlock[Min(TicketLines(reqBlock))])
        IN  Built.tix = Some(IF 1 \in RunStarts(v) THEN URLsOfRuns(v, RunStarts(v)) ELSE v)

\* C5, reached: a value with two digit runs became two URLs.
C5_Witness ==
    /\ pc = "built"
    /\ TicketLines(reqBlock) = {4}
    /\ Built.tix = Some(<<TicketURL, "1", NL, TicketURL, "2">>)

\* C6 as claimed: a file whose last block is unterminated puts no record in
\* the table (flag unset).
C6_UnterminatedNoRecords ==
    (pc = "loop" /\ ~skip_no_require /\ isfile /\ Unterminated) =>
        RowsOf(allReqs, fileIdx) = <<>>

\* The step at which the end of the file cuts a block off.
C6_UnterminatedStep ==
    (Unterminated' /\ ~Unterminated) =>
        /\ parserReqs' = parserReqs
        /\ reqID' = reqID
        /\ error' = None
        /\ pc' = "outer"

\* The states after it, up to the next file.
C6_UnterminatedState ==
    Unterminated =>
        /\ pc # "aborted"
        /\ error = None
        /\ pc = "loop" =>
              /\ Len(RowsOf(allReqs, fileIdx)) =
                    IF ReqIDs(parserReqs) = <<>>
                    THEN (IF skip_no_require THEN 0 ELSE 1)
                    ELSE Len(RowIDs(RowsOf(allReqs, fileIdx)))
              /\ ReqIDs(parserReqs) = <<>> => parserReqs = <<Placeholder(fileIdx)>>
              /\ fileIdx < MaxFiles => ENABLED OpenFile

\* C6: an unterminated block builds no Requirement, takes no identifier and
\* raises no error; its file gets the placeholder when no other block was
\* extracted from it (one row with the flag unset, none with it set), and
\* the scan goes on to the next file.
C6_UnterminatedDropped == []C6_UnterminatedState /\ [][C6_UnterminatedStep]_vars

\* C6, reached: the only block of the first file was cut off and the file got its placeholder row.
C6_Witness ==
    /\ pc = "loop"
    /\ fileIdx = 1
    /\ Unterminated
    /\ Len(reqBlock) = 3
    /\ ~skip_no_require
    /\ allReqs = <<to_dict(Placeholder(1))>>

\* C7: every Requirement with an identifier has a description that is
\* present and not empty.
C7_DescriptionNonEmpty ==
    \A i \in 1..Len(parserReqs) :
        parserReqs[i].ID # None =>
            (parserReqs[i].descr # None /\ parserReqs[i].descr[1] # <<>>)

\* C8 as claimed: any whitespace around the marker token is tolerated, and
\* so is an end marker without a newline.
C8_TolerantMarkers ==
    /\ (pc = "outer" /\ TolerantMarker(fline, "@beginreq")) => ENABLED OuterBegin
    /\ (pc = "inner" /\ Len(reqBlock) >= 2) => ~TolerantMarker(Last(reqBlock), "@endreq")

\* C8: a line is a begin (end) marker exactly when it ends with the tag, one
\* space, the marker token in any case and a newline, whatever precedes the
\* tag.
C8_StrictMarkers ==
    /\ (pc = "outer" /\ fline # EOFLine) =>
          /\ ENABLED OuterBegin <=> StrictMarker(fline, "@beginreq")
          /\ ENABLED OuterSkip <=> ~StrictMarker(fline, "@beginreq")
    /\ reqBlock # <<>> => StrictMarker(reqBlock[1], "@beginreq")
    /\ (pc = "inner" /\ Len(reqBlock) >= 2) => ~StrictMarker(Last(reqBlock), "@endreq")
    /\ Terminated => StrictMarker(Last(reqBlock), "@endreq")

\* C8, reached: a block was closed by an end marker in mixed case after other text.
C8_Witness ==
    /\ pc = "outer"
    /\ Len(parserReqs) = 1
    /\ reqBlock = <<BeginLine, <<TAG, " ", "-", " ", "a", NL>>,
                    <<"a", TAG, " ", "@EndReq", NL>>>>

\* The block being read, in every state.
C9_Shape ==
    /\ reqBlock # <<>> => re_begin_search(reqBlock[1])
    /\ \A k \in 2..Len(reqBlock) - 1 : ~re_end_search(reqBlock[k])
    /\ pc = "inner" => ~re_end_search(Last(reqBlock))

\* The steps of the two loops.
C9_Step ==
    /\ (pc = "outer" /\ pc' = "inner") =>
          (re_begin_search(fline) /\ reqBlock' = <<fline>> /\ parserReqs' = parserReqs)
    /\ (pc = "outer" /\ fline # EOFLine /\ ~re_begin_search(fline)) =>
          (pc' = "outer" /\ reqBlock' = reqBlock /\ parserReqs' = parserReqs
             /\ reqID' = reqID)
    /\ (pc = "inner" /\ pc' = "inner") =>
          (reqBlock' = Append(reqBlock, fline') /\ parserReqs' = parserReqs)
    /\ (pc = "inner" /\ pc' # "inner") =>
          /\ Len(reqBlock') = Len(reqBlock) + 1
          /\ SubSeq(reqBlock', 1, Len(reqBlock)) = reqBlock
          /\ IF re_end_search(Last(reqBlock'))
             THEN \/ pc' = "aborted" /\ parserReqs' = parserReqs
                  \/ /\ pc' = "outer"
                     /\ Len(parserReqs') = Len(parserReqs) + 1
                     /\ SubSeq(parserReqs', 1, Len(parserReqs)) = parserReqs
                     /\ Last(parserReqs').ID # None
                     /\ Last(parserReqs').tfile = fileIdx
             ELSE Last(reqBlock') = EOFLine /\ parserReqs' = parserReqs
    /\ (pc \in {"outer", "inner"} /\ Len(parserReqs') > Len(parserReqs)) =>
          (pc = "inner" /\ re_end_search(Last(reqBlock')))

\* C9: a block opens only at a begin marker met while searching and closes at
\* the first end marker after it; a line met inside a block, a begin marker
\* too, joins the block; an end marker met while searching changes nothing;
\* each closed block gives one Requirement, appended in order.
C9_ScannerMachine == []C9_Shape /\ [][C9_Step]_vars

\* C9, reached: a second block of the same file took a begin marker as its body.
C9_Witness ==
    /\ pc = "inner"
    /\ Len(parserReqs) = 1
    /\ parserReqs[1].tfile = fileIdx
    /\ reqBlock = <<BeginLine, BeginLine>>

\* C10: with the flag set the table still holds every identifier handed
\* out: 1..n without gaps.
C10_FlagKeepsIdentified ==
    (pc = "done" /\ skip_no_require) =>
        /\ Len(RowIDs(df[1])) = reqID
        /\ \A i \in 1..Len(RowIDs(df[1])) : RowIDs(df[1])[i] = i

====
